---- MODULE Spec2Model ----
(***************************************************************************)
(* Model of src/os/linux/mod.rs: resolution of a default application       *)
(* (Application::detect_editor), launching a path with it                  *)
(* (Application::open_file) and launching a path with an application       *)
(* named by the caller (open_file_with).                                   *)
(*                                                                         *)
(* Strings (OsString, PathBuf, &str) are sequences of one-character        *)
(* strings.  Option<T> is a sequence of length 0 (None) or 1 (Some).       *)
(***************************************************************************)
EXTENDS Integers, Sequences, FiniteSets, TLC

\* Number of base directories returned by xdg::get_xdg_data_dirs().
NumDirs == 2

None == <<>>
Some(v) == <<v>>
IsSome(o) == Len(o) = 1
Unwrap(o) == o[1]

----------------------------------------------------------------------------
(* String values used by the environment and the callers.                   *)

Slash == <<"/">>
Applications == <<"a", "p", "p", "l", "i", "c", "a", "t", "i", "o", "n", "s">>
CodeId == <<"c", "o", "d", "e", ".", "d", "e", "s", "k", "t", "o", "p">>
GeditId == <<"g", "e", "d", "i", "t", ".", "d", "e", "s", "k", "t", "o", "p">>
Ids == {CodeId, GeditId}

\* The display name (Name key) an entry file with the given id declares.
DisplayName(id) == IF id = CodeId THEN <<"C", "o", "d", "e">> ELSE <<"g", "e", "d", "i", "t">>

UnknownApp == <<"v", "i">>
AppNames == {DisplayName(id) : id \in Ids} \cup {UnknownApp}

TargetPath == <<"/", "t", "m", "p", "/", "a", ".", "r", "s">>
Paths == {TargetPath}

EditIcon == <<"e", "d", "i", "t", "-", "i", "c", "o", "n">>
IconFlag == <<"-", "-", "i", "c", "o", "n">>
Editor == <<"e", "d", "i", "t", "o", "r">>

\* Exec values found in entry files.
ExecEditor == Editor \o <<" ", "%", "f", " ", "%", "i">>
ExecEmpty == <<>>
ExecOnlyIcon == <<"%", "i">>
ExecValues == {ExecEditor, ExecEmpty, ExecOnlyIcon}

----------------------------------------------------------------------------
(* xdg::parse_command: the Exec tokenizer and the field code expander.      *)

IsSpace(c) == c \in {" ", "\t"}
\* The grave accent character (U+0060), which a string literal cannot hold.
Grave == "grave"
IsQuotedEscapable(c) == c \in {"\"", Grave, "$", "\\"}

\* Tokenizer state machine over the characters of the Exec value.
\* Returns [ok, tokens]; ok is FALSE for an unterminated quoted run.
RECURSIVE TokenizeFrom(_, _, _, _, _, _)
TokenizeFrom(s, i, cur, inTok, inQuote, acc) ==
    IF i > Len(s)
    THEN IF inQuote
         THEN [ok |-> FALSE, tokens |-> <<>>]
         ELSE [ok |-> TRUE,
               tokens |-> IF inTok THEN Append(acc, cur) ELSE acc]
    ELSE LET c == s[i] IN
         IF inQuote
         THEN IF c = "\""
              THEN TokenizeFrom(s, i + 1, cur, TRUE, FALSE, acc)
              ELSE IF c = "\\" /\ i < Len(s) /\ IsQuotedEscapable(s[i + 1])
              THEN TokenizeFrom(s, i + 2, Append(cur, s[i + 1]), TRUE, TRUE, acc)
              ELSE TokenizeFrom(s, i + 1, Append(cur, c), TRUE, TRUE, acc)
         ELSE IF IsSpace(c)
              THEN TokenizeFrom(s, i + 1, <<>>, FALSE, FALSE,
                                IF inTok THEN Append(acc, cur) ELSE acc)
              ELSE IF c = "\""
              THEN TokenizeFrom(s, i + 1, cur, TRUE, TRUE, acc)
              ELSE TokenizeFrom(s, i + 1, Append(cur, c), TRUE, FALSE, acc)

Tokenize(s) == TokenizeFrom(s, 1, <<>>, FALSE, FALSE, <<>>)

\* Last path component of an entry file path: the entry id.
RECURSIVE FileName(_)
FileName(p) ==
    IF p = <<>> THEN <<>>
    ELSE IF p[Len(p)] = "/" THEN <<>>
    ELSE Append(FileName(SubSeq(p, 1, Len(p) - 1)), p[Len(p)])

\* Resolution context of one expansion.
Context(argument, icon, desktop_entry_path) ==
    [target_path |-> argument,
     icon |-> icon,
     entry_name |-> IF IsSome(desktop_entry_path)
                    THEN FileName(Unwrap(desktop_entry_path)) ELSE <<>>,
     entry_file_path |-> IF IsSome(desktop_entry_path)
                         THEN Unwrap(desktop_entry_path) ELSE <<>>]

\* Scan of one token for field codes.  Returns [text, icon_code].
RECURSIVE ExpandFrom(_, _, _, _, _)
ExpandFrom(tok, i, ctx, text, iconCode) ==
    IF i > Len(tok) THEN [text |-> text, icon_code |-> iconCode]
    ELSE IF tok[i] # "%" \/ i = Len(tok)
    THEN ExpandFrom(tok, i + 1, ctx, Append(text, tok[i]), iconCode)
    ELSE LET c == tok[i + 1] IN
         IF c \in {"f", "F", "u", "U"}
         THEN ExpandFrom(tok, i + 2, ctx, text \o ctx.target_path, iconCode)
         ELSE IF c = "i"
         THEN ExpandFrom(tok, i + 2, ctx, text, TRUE)
         ELSE IF c = "c"
         THEN ExpandFrom(tok, i + 2, ctx, text \o ctx.entry_name, iconCode)
         ELSE IF c = "k"
         THEN ExpandFrom(tok, i + 2, ctx, text \o ctx.entry_file_path, iconCode)
         ELSE IF c = "%"
         THEN ExpandFrom(tok, i + 2, ctx, Append(text, "%"), iconCode)
         ELSE ExpandFrom(tok, i + 2, ctx, text, iconCode)

\* The arguments one token expands to.
ExpandToken(tok, ctx) ==
    LET e == ExpandFrom(tok, 1, ctx, <<>>, FALSE) IN
    IF e.icon_code
    THEN IF IsSome(ctx.icon) THEN <<IconFlag, Unwrap(ctx.icon)>> ELSE <<>>
    ELSE IF e.text = <<>> THEN <<>> ELSE <<e.text>>

RECURSIVE ExpandTokens(_, _)
ExpandTokens(tokens, ctx) ==
    IF tokens = <<>> THEN <<>>
    ELSE ExpandToken(Head(tokens), ctx) \o ExpandTokens(Tail(tokens), ctx)

parse_command(command, argument, icon, desktop_entry_path) ==
    LET t == Tokenize(command) IN
    IF ~t.ok THEN <<>>
    ELSE ExpandTokens(t.tokens, Context(argument, icon, desktop_entry_path))

----------------------------------------------------------------------------
(* The environment: the MIME association database and the applications      *)
(* directories, as the xdg module sees them.                                *)

MimeTypes == {"text/rust", "text/plain"}

\* An entry file: read is "ok", "io" (the file cannot be read) or "syntax"
\* (the file is read but is not a key file); exec and icon are the Exec and
\* Icon keys of its [Desktop Entry] section.
EntryFile(id, read, exec, icon) ==
    [id |-> id, read |-> read, exec |-> exec, icon |-> icon]

EntryFiles ==
    {EntryFile(id, r, None, None) : id \in Ids, r \in {"io", "syntax"}}
    \cup {EntryFile(id, "ok", None, None) : id \in Ids}
    \cup {EntryFile(id, "ok", Some(e), None) : id \in Ids, e \in ExecValues}
    \cup {EntryFile(id, "ok", Some(e), Some(EditIcon)) :
            id \in Ids, e \in {ExecEditor, ExecOnlyIcon}}

\* A base directory: its applications folder can be listed or not, and
\* holds at most one entry file.
Directories ==
    {[readable |-> FALSE, file |-> None]}
    \cup {[readable |-> TRUE, file |-> None]}
    \cup {[readable |-> TRUE, file |-> Some(f)] : f \in EntryFiles}

VARIABLES
    fs,        \* base directory index -> directory
    mime,      \* MIME type -> Option<entry id>
    pc,        \* position of the running operation
    args,      \* arguments of the running operation
    entry,     \* detect_editor: Option<entry id> from the association query
    dirIdx,    \* position of the find_map iterator over the base directories
    matched,   \* detect_editor: Option<entry_filepath>
    parsed,    \* detect_editor: Option<parsed_entry>
    cmd,       \* command_parts
    app,       \* Option<Application> held by the caller
    result,    \* value returned by the operation
    queries,   \* MIME types the association oracle was asked for
    probed,    \* base directories searched by the operation
    launches   \* invocations of the process launcher

vars == <<fs, mime, pc, args, entry, dirIdx, matched, parsed, cmd, app,
          result, queries, probed, launches>>

Join(dir, name) == dir \o Slash \o name

\* xdg::get_xdg_data_dirs(): the base directories, highest precedence first.
get_xdg_data_dirs == [i \in 1..NumDirs |-> <<"/", ToString(i)>>]

\* The directory stored at an applications path.
ReadDir(dir) ==
    fs[CHOOSE i \in 1..NumDirs : Join(get_xdg_data_dirs[i], Applications) = dir]

\* xdg::query_mime_entry
query_mime_entry(mime_type) == mime[mime_type]

\* xdg::find_entry_in_dir: Result<Option<PathBuf>, io::Error>
find_entry_in_dir(dir, id) ==
    LET d == ReadDir(dir) IN
    IF ~d.readable THEN [ok |-> FALSE, val |-> None]
    ELSE IF IsSome(d.file) /\ Unwrap(d.file).id = id
    THEN [ok |-> TRUE, val |-> Some(Join(dir, id))]
    ELSE [ok |-> TRUE, val |-> None]

\* The entry file stored at a path.
ReadFile(path) ==
    Unwrap((CHOOSE d \in {fs[i] : i \in 1..NumDirs} :
               /\ IsSome(d.file)
               /\ \E i \in 1..NumDirs :
                    /\ fs[i] = d
                    /\ Join(Join(get_xdg_data_dirs[i], Applications),
                            Unwrap(d.file).id) = path).file)

\* xdg::parse: Result<Entry, io::Error>; err is the cause of a failure.
parse(path) ==
    LET f == ReadFile(path) IN
    IF f.read = "ok"
    THEN [ok |-> TRUE, err |-> "none", exec |-> f.exec, icon |-> f.icon]
    ELSE [ok |-> FALSE, err |-> f.read, exec |-> None, icon |-> None]

\* xdg::find_entry_by_app_name: Option<(Entry, PathBuf)>
find_entry_by_app_name(dir, app_str) ==
    LET d == ReadDir(dir) IN
    IF /\ d.readable
       /\ IsSome(d.file)
       /\ Unwrap(d.file).read = "ok"
       /\ DisplayName(Unwrap(d.file).id) = app_str
    THEN Some([entry |-> parse(Join(dir, Unwrap(d.file).id)),
               entry_path |-> Join(dir, Unwrap(d.file).id)])
    ELSE None

----------------------------------------------------------------------------
(* Results.                                                                 *)

Res(kind, cause) == [kind |-> kind, cause |-> cause]
Pending == Res("Pending", "none")
Ok == Res("Ok", "none")
NoDefaultEditorSet == Res("NoDefaultEditorSet", "none")
FreeDesktopEntryNotFound == Res("FreeDesktopEntryNotFound", "none")
FreeDesktopEntryParseError(cause) == Res("FreeDesktopEntryParseError", cause)
FreeDesktopEntryLookupFailed(cause) == Res("FreeDesktopEntryLookupFailed", cause)
ExecFieldMissing == Res("ExecFieldMissing", "none")
LaunchFailed == Res("LaunchFailed", "none")
CommandParsingFailed == Res("CommandParsingFailed", "none")
\* Index out of bounds on command_parts[0].
Panic == Res("Panic", "none")

Application(exec_command, icon, xdg_entry_path) ==
    [exec_command |-> exec_command, icon |-> icon,
     xdg_entry_path |-> xdg_entry_path]

NoArgs == [application |-> <<>>, path |-> <<>>]

Init ==
    /\ fs \in [1..NumDirs -> Directories]
    /\ mime \in {[t \in MimeTypes |-> IF t = "text/rust" THEN r ELSE p] :
                   r \in {None, Some(CodeId)},
                   p \in {None} \cup {Some(id) : id \in Ids}}
    /\ pc = "idle"
    /\ args = NoArgs
    /\ entry = None
    /\ dirIdx = 1
    /\ matched = None
    /\ parsed = None
    /\ cmd = <<>>
    /\ app = None
    /\ result = Pending
    /\ queries = <<>>
    /\ probed = <<>>
    /\ launches = <<>>

----------------------------------------------------------------------------
(* Application::detect_editor                                               *)

DetectEditor ==
    /\ pc = "idle"
    /\ pc' = "query_rust"
    /\ UNCHANGED <<fs, mime, args, entry, dirIdx, matched, parsed, cmd, app,
                   result, queries, probed, launches>>

\* Variant: a failed text/rust query is not retried with text/plain.
QueryTextRust_NoFallback ==
    /\ pc = "query_rust"
    /\ queries' = Append(queries, "text/rust")
    /\ entry' = query_mime_entry("text/rust")
    /\ IF IsSome(entry')
       THEN pc' = "locate" /\ result' = result
       ELSE pc' = "detect_done" /\ result' = NoDefaultEditorSet
    /\ UNCHANGED <<fs, mime, args, dirIdx, matched, parsed, cmd, app, probed,
                   launches>>

QueryTextRust ==
    /\ pc = "query_rust"
    /\ queries' = Append(queries, "text/rust")
    /\ entry' = query_mime_entry("text/rust")
    /\ pc' = IF IsSome(entry') THEN "locate" ELSE "query_plain"
    /\ UNCHANGED <<fs, mime, args, dirIdx, matched, parsed, cmd, app, result,
                   probed, launches>>

QueryTextPlain ==
    /\ pc = "query_plain"
    /\ queries' = Append(queries, "text/plain")
    /\ entry' = query_mime_entry("text/plain")
    /\ IF IsSome(entry')
       THEN pc' = "locate" /\ result' = result
       ELSE pc' = "detect_done" /\ result' = NoDefaultEditorSet
    /\ UNCHANGED <<fs, mime, args, dirIdx, matched, parsed, cmd, app, probed,
                   launches>>

\* Variant: a directory that cannot be listed ends the search.
LocateEntry_AbortOnError ==
    /\ pc = "locate"
    /\ IF dirIdx > NumDirs
       THEN /\ pc' = "detect_done"
            /\ result' = FreeDesktopEntryNotFound
            /\ UNCHANGED <<dirIdx, matched, probed>>
       ELSE LET dir == Join(get_xdg_data_dirs[dirIdx], Applications)
                found == find_entry_in_dir(dir, Unwrap(entry))
            IN /\ probed' = Append(probed, dirIdx)
               /\ IF ~found.ok
                  THEN /\ pc' = "detect_done"
                       /\ result' = FreeDesktopEntryNotFound
                       /\ UNCHANGED <<dirIdx, matched>>
                  ELSE IF IsSome(found.val)
                  THEN /\ matched' = found.val
                       /\ pc' = "parse"
                       /\ UNCHANGED <<dirIdx, result>>
                  ELSE /\ dirIdx' = dirIdx + 1
                       /\ UNCHANGED <<matched, pc, result>>
    /\ UNCHANGED <<fs, mime, args, entry, parsed, cmd, app, queries, launches>>

\* One step of find_map over the base directories.
LocateEntry ==
    /\ pc = "locate"
    /\ IF dirIdx > NumDirs
       THEN /\ pc' = "detect_done"
            /\ result' = FreeDesktopEntryNotFound
            /\ UNCHANGED <<dirIdx, matched, probed>>
       ELSE LET dir == Join(get_xdg_data_dirs[dirIdx], Applications)
                found == find_entry_in_dir(dir, Unwrap(entry))
            IN /\ probed' = Append(probed, dirIdx)
               /\ IF found.ok /\ IsSome(found.val)
                  THEN /\ matched' = found.val
                       /\ pc' = "parse"
                       /\ UNCHANGED dirIdx
                  ELSE /\ dirIdx' = dirIdx + 1
                       /\ UNCHANGED <<matched, pc>>
               /\ UNCHANGED result
    /\ UNCHANGED <<fs, mime, args, entry, parsed, cmd, app, queries, launches>>

\* Variant: an entry that cannot be parsed sends the search on to the next
\* base directory.
ParseEntry_Retry ==
    /\ pc = "parse"
    /\ LET p == parse(Unwrap(matched)) IN
       IF p.ok
       THEN /\ parsed' = Some(p)
            /\ pc' = "extract"
            /\ UNCHANGED <<dirIdx, matched>>
       ELSE /\ dirIdx' = dirIdx + 1
            /\ matched' = None
            /\ pc' = "locate"
            /\ UNCHANGED parsed
    /\ UNCHANGED <<fs, mime, args, entry, cmd, app, result, queries, probed,
                   launches>>

ParseEntry ==
    /\ pc = "parse"
    /\ LET p == parse(Unwrap(matched)) IN
       IF p.ok
       THEN /\ parsed' = Some(p)
            /\ pc' = "extract"
            /\ UNCHANGED result
       ELSE /\ result' = FreeDesktopEntryParseError(p.err)
            /\ pc' = "detect_done"
            /\ UNCHANGED parsed
    /\ UNCHANGED <<fs, mime, args, entry, dirIdx, matched, cmd, app, queries,
                   probed, launches>>

\* Variant: the Icon key is required like the Exec key.
ExtractFields_IconRequired ==
    /\ pc = "extract"
    /\ LET parsed_entry == Unwrap(parsed) IN
       IF IsSome(parsed_entry.exec) /\ IsSome(parsed_entry.icon)
       THEN /\ app' = Some(Application(Unwrap(parsed_entry.exec),
                                       parsed_entry.icon, Unwrap(matched)))
            /\ result' = Ok
       ELSE /\ result' = ExecFieldMissing
            /\ UNCHANGED app
    /\ pc' = "detect_done"
    /\ UNCHANGED <<fs, mime, args, entry, dirIdx, matched, parsed, cmd,
                   queries, probed, launches>>

ExtractFields ==
    /\ pc = "extract"
    /\ LET parsed_entry == Unwrap(parsed) IN
       IF IsSome(parsed_entry.exec)
       THEN /\ app' = Some(Application(Unwrap(parsed_entry.exec),
                                       parsed_entry.icon, Unwrap(matched)))
            /\ result' = Ok
       ELSE /\ result' = ExecFieldMissing
            /\ UNCHANGED app
    /\ pc' = "detect_done"
    /\ UNCHANGED <<fs, mime, args, entry, dirIdx, matched, parsed, cmd,
                   queries, probed, launches>>

----------------------------------------------------------------------------
(* The process launcher.                                                    *)

\* bossy::Command::impure(&command_parts[0]).with_args(&command_parts[1..])
\*     .run_and_detach().map_err(OpenFileError::LaunchFailed)
RunAndDetach(command_parts, started) ==
    IF command_parts = <<>>
    THEN /\ result' = Panic
         /\ UNCHANGED launches
    ELSE /\ launches' = Append(launches, [program |-> command_parts[1],
                                          args |-> Tail(command_parts),
                                          started |-> started])
         /\ result' = IF started THEN Ok ELSE LaunchFailed

----------------------------------------------------------------------------
(* Application::open_file                                                   *)

OpenFile(path) ==
    /\ pc = "idle"
    /\ IsSome(app)
    /\ args' = [application |-> <<>>, path |-> path]
    /\ pc' = "of_expand"
    /\ UNCHANGED <<fs, mime, entry, dirIdx, matched, parsed, cmd, app, result,
                   queries, probed, launches>>

\* Variant: the icon of the Application is not handed to the expansion.
maybe_icon_None(self) == None

maybe_icon(self) == self.icon

\* Variant: command_parts is launched without the is_empty test.
OfExpand_NoGuard ==
    /\ pc = "of_expand"
    /\ cmd' = parse_command(Unwrap(app).exec_command, args.path,
                            maybe_icon(Unwrap(app)),
                            Some(Unwrap(app).xdg_entry_path))
    /\ pc' = "of_launch"
    /\ UNCHANGED <<fs, mime, args, entry, dirIdx, matched, parsed, app,
                   result, queries, probed, launches>>

\* Variant: an empty command_parts is reported as success.
OfExpand_EmptyIsOk ==
    /\ pc = "of_expand"
    /\ cmd' = parse_command(Unwrap(app).exec_command, args.path,
                            maybe_icon(Unwrap(app)),
                            Some(Unwrap(app).xdg_entry_path))
    /\ IF cmd' # <<>>
       THEN pc' = "of_launch" /\ result' = result
       ELSE pc' = "of_done" /\ result' = Ok
    /\ UNCHANGED <<fs, mime, args, entry, dirIdx, matched, parsed, app,
                   queries, probed, launches>>

OfExpand ==
    /\ pc = "of_expand"
    /\ cmd' = parse_command(Unwrap(app).exec_command, args.path,
                            maybe_icon(Unwrap(app)),
                            Some(Unwrap(app).xdg_entry_path))
    /\ IF cmd' # <<>>
       THEN pc' = "of_launch" /\ result' = result
       ELSE pc' = "of_done" /\ result' = CommandParsingFailed
    /\ UNCHANGED <<fs, mime, args, entry, dirIdx, matched, parsed, app,
                   queries, probed, launches>>

OfLaunch ==
    /\ pc = "of_launch"
    /\ \E started \in BOOLEAN : RunAndDetach(cmd, started)
    /\ pc' = "of_done"
    /\ UNCHANGED <<fs, mime, args, entry, dirIdx, matched, parsed, cmd, app,
                   queries, probed>>

----------------------------------------------------------------------------
(* open_file_with                                                           *)

OpenFileWith(application, path) ==
    /\ pc = "idle"
    /\ args' = [application |-> application, path |-> path]
    /\ pc' = "ofw_search"
    /\ UNCHANGED <<fs, mime, entry, dirIdx, matched, parsed, cmd, app, result,
                   queries, probed, launches>>

\* The closure given to find_map: Option<Vec<OsString>> for one directory.
OfwClosure(dir, app_str, path_str) ==
    LET found == find_entry_by_app_name(dir, app_str) IN
    IF ~IsSome(found) THEN None
    ELSE LET e == Unwrap(found).entry
             entry_path == Unwrap(found).entry_path
         IN IF ~IsSome(e.exec) THEN None
            ELSE LET command_parts ==
                         parse_command(Unwrap(e.exec), path_str, e.icon,
                                       Some(entry_path))
                 IN IF command_parts # <<>> THEN Some(command_parts)
                    ELSE None

\* Variant: the fallback command carries the target path as an argument.
OfwSearch_FallbackWithPath ==
    /\ pc = "ofw_search"
    /\ IF dirIdx > NumDirs
       THEN /\ cmd' = <<args.application, args.path>>
            /\ pc' = "ofw_launch"
            /\ UNCHANGED <<dirIdx, probed>>
       ELSE LET dir == Join(get_xdg_data_dirs[dirIdx], Applications)
                r == OfwClosure(dir, args.application, args.path)
            IN /\ probed' = Append(probed, dirIdx)
               /\ IF IsSome(r)
                  THEN /\ cmd' = Unwrap(r)
                       /\ pc' = "ofw_launch"
                       /\ UNCHANGED dirIdx
                  ELSE /\ dirIdx' = dirIdx + 1
                       /\ UNCHANGED <<cmd, pc>>
    /\ UNCHANGED <<fs, mime, args, entry, matched, parsed, app, result,
                   queries, launches>>

\* Variant: the first directory holding an entry for the name ends the
\* search, whether or not it yields a command.
OfwSearch_StopAtNameMatch ==
    /\ pc = "ofw_search"
    /\ IF dirIdx > NumDirs
       THEN /\ cmd' = <<args.application>>
            /\ pc' = "ofw_launch"
            /\ UNCHANGED <<dirIdx, probed>>
       ELSE LET dir == Join(get_xdg_data_dirs[dirIdx], Applications)
                r == OfwClosure(dir, args.application, args.path)
            IN /\ probed' = Append(probed, dirIdx)
               /\ IF IsSome(r)
                  THEN /\ cmd' = Unwrap(r)
                       /\ pc' = "ofw_launch"
                       /\ UNCHANGED dirIdx
                  ELSE IF IsSome(find_entry_by_app_name(dir, args.application))
                  THEN /\ cmd' = <<args.application>>
                       /\ pc' = "ofw_launch"
                       /\ UNCHANGED dirIdx
                  ELSE /\ dirIdx' = dirIdx + 1
                       /\ UNCHANGED <<cmd, pc>>
    /\ UNCHANGED <<fs, mime, args, entry, matched, parsed, app, result,
                   queries, launches>>

\* One step of find_map over the base directories, and unwrap_or_else.
OfwSearch ==
    /\ pc = "ofw_search"
    /\ IF dirIdx > NumDirs
       THEN /\ cmd' = <<args.application>>
            /\ pc' = "ofw_launch"
            /\ UNCHANGED <<dirIdx, probed>>
       ELSE LET dir == Join(get_xdg_data_dirs[dirIdx], Applications)
                r == OfwClosure(dir, args.application, args.path)
            IN /\ probed' = Append(probed, dirIdx)
               /\ IF IsSome(r)
                  THEN /\ cmd' = Unwrap(r)
                       /\ pc' = "ofw_launch"
                       /\ UNCHANGED dirIdx
                  ELSE /\ dirIdx' = dirIdx + 1
                       /\ UNCHANGED <<cmd, pc>>
    /\ UNCHANGED <<fs, mime, args, entry, matched, parsed, app, result,
                   queries, launches>>

OfwLaunch ==
    /\ pc = "ofw_launch"
    /\ \E started \in BOOLEAN : RunAndDetach(cmd, started)
    /\ pc' = "ofw_done"
    /\ UNCHANGED <<fs, mime, args, entry, dirIdx, matched, parsed, cmd, app,
                   queries, probed>>

----------------------------------------------------------------------------

\* The operation returns to its caller, which keeps the Application.
Return ==
    /\ pc \in {"detect_done", "of_done", "ofw_done"}
    /\ pc' = "idle"
    /\ args' = NoArgs
    /\ entry' = None
    /\ dirIdx' = 1
    /\ matched' = None
    /\ parsed' = None
    /\ cmd' = <<>>
    /\ result' = Pending
    /\ queries' = <<>>
    /\ probed' = <<>>
    /\ launches' = <<>>
    /\ UNCHANGED <<fs, mime, app>>

Next ==
    \/ DetectEditor
    \/ QueryTextRust
    \/ QueryTextPlain
    \/ LocateEntry
    \/ ParseEntry
    \/ ExtractFields
    \/ \E path \in Paths : OpenFile(path)
    \/ OfExpand
    \/ OfLaunch
    \/ \E application \in AppNames, path \in Paths :
          OpenFileWith(application, path)
    \/ OfwSearch
    \/ OfwLaunch
    \/ Return

Spec == Init /\ [][Next]_vars
----------------------------------------------------------------------------
(* Properties.                                                              *)

InDetect == pc \in {"locate", "parse", "extract", "detect_done"}

AppsDir(i) == Join(get_xdg_data_dirs[i], Applications)

\* Base directory i can be listed and holds an entry file with this id.
HoldsEntry(i, id) ==
    /\ fs[i].readable
    /\ IsSome(fs[i].file)
    /\ Unwrap(fs[i].file).id = id

Holders(id) == {i \in 1..NumDirs : HoldsEntry(i, id)}

Lowest(S) == CHOOSE i \in S : \A j \in S : i <= j

UpTo(k) == [j \in 1..k |-> j]

\* Base directory i holds a readable entry file declaring this name.
HoldsName(i, name) ==
    /\ fs[i].readable
    /\ IsSome(fs[i].file)
    /\ Unwrap(fs[i].file).read = "ok"
    /\ DisplayName(Unwrap(fs[i].file).id) = name

\* The argument vector the entry of base directory i expands to.
VectorOf(i, path) ==
    LET f == Unwrap(fs[i].file) IN
    IF IsSome(f.exec)
    THEN parse_command(Unwrap(f.exec), path, f.icon,
                       Some(Join(AppsDir(i), f.id)))
    ELSE <<>>

Yielders(name, path) ==
    {i \in 1..NumDirs : HoldsName(i, name) /\ VectorOf(i, path) # <<>>}

\* C1: detect_editor asks the association oracle for text/rust first and
\* for text/plain only after text/rust failed, at most two queries in all;
\* the search runs with the id of the query that succeeded (text/plain's
\* when text/rust failed); when both fail the result is NoDefaultEditorSet
\* and no applications directory has been probed.
C1_MimeFallback ==
    /\ queries \in {<<>>, <<"text/rust">>, <<"text/rust", "text/plain">>}
    /\ Len(queries) = 2 => mime["text/rust"] = None
    /\ InDetect /\ IsSome(mime["text/rust"]) =>
          /\ entry = mime["text/rust"]
          /\ queries = <<"text/rust">>
    /\ InDetect /\ mime["text/rust"] = None /\ IsSome(mime["text/plain"]) =>
          /\ entry = mime["text/plain"]
          /\ queries = <<"text/rust", "text/plain">>
          /\ IsSome(matched) =>
                FileName(Unwrap(matched)) = Unwrap(mime["text/plain"])
    /\ InDetect /\ mime["text/rust"] = None /\ mime["text/plain"] = None =>
          /\ pc = "detect_done"
          /\ result = NoDefaultEditorSet
          /\ probed = <<>>
          /\ queries = <<"text/rust", "text/plain">>

C1_Witness ==
    /\ pc = "detect_done"
    /\ mime["text/rust"] = None
    /\ IsSome(mime["text/plain"])
    /\ queries = <<"text/rust", "text/plain">>
    /\ result = Ok
    /\ FileName(Unwrap(app).xdg_entry_path) = Unwrap(mime["text/plain"])

\* C2: when detect_editor ends after a successful association query, the
\* entry used is the one in the first base directory whose search matches;
\* directories that cannot be listed or hold no match are passed over, and
\* if no directory matches the result is FreeDesktopEntryNotFound with
\* every directory probed.
C2_FirstMatchWins ==
    pc = "detect_done" /\ IsSome(entry) =>
        LET id == Unwrap(entry) IN
        IF Holders(id) = {}
        THEN /\ result = FreeDesktopEntryNotFound
             /\ matched = None
             /\ probed = UpTo(NumDirs)
        ELSE LET k == Lowest(Holders(id)) IN
             /\ matched = Some(Join(AppsDir(k), id))
             /\ result # FreeDesktopEntryNotFound
             /\ result = Ok => Unwrap(app).xdg_entry_path = Join(AppsDir(k), id)

C2_Witness ==
    /\ pc = "detect_done"
    /\ IsSome(entry)
    /\ ~fs[1].readable
    /\ HoldsEntry(2, Unwrap(entry))
    /\ result = Ok
    /\ Unwrap(app).xdg_entry_path = Join(AppsDir(2), Unwrap(entry))

\* C3: an I/O fault while reading the matched entry file ends
\* detect_editor with FreeDesktopEntryLookupFailed, and a syntax error in
\* a file that was read ends it with FreeDesktopEntryParseError.
C3_ReadFaultIsLookupFailed ==
    pc = "detect_done" /\ IsSome(matched) =>
        LET f == ReadFile(Unwrap(matched)) IN
        /\ f.read = "io" => result.kind = "FreeDesktopEntryLookupFailed"
        /\ f.read = "syntax" => result.kind = "FreeDesktopEntryParseError"

\* C4: when the matched entry parses, a missing Exec key gives
\* ExecFieldMissing, and a present Exec key gives an Application whose
\* exec_command is the raw Exec value, whose icon is the Icon key (absent
\* when the key is absent) and whose path is the matched file's path.
C4_ExtractFields ==
    pc = "detect_done" /\ IsSome(entry) /\ Holders(Unwrap(entry)) # {} =>
        LET id == Unwrap(entry)
            k == Lowest(Holders(id))
            f == Unwrap(fs[k].file)
        IN f.read = "ok" =>
             IF f.exec = None
             THEN result = ExecFieldMissing
             ELSE /\ result = Ok
                  /\ app = Some(Application(Unwrap(f.exec), f.icon,
                                            Join(AppsDir(k), id)))

C4_Witness ==
    /\ pc = "detect_done"
    /\ result = Ok
    /\ Unwrap(app).icon = None
    /\ Unwrap(app).exec_command = ExecEditor
    /\ Unwrap(app).xdg_entry_path = Unwrap(matched)

\* C5: the process launcher is never reached with an empty argument
\* vector: every invocation has the first element of command_parts as the
\* executable and the remaining elements as the arguments.
C5_LauncherArgvNonEmpty ==
    /\ result # Panic
    /\ \A j \in 1..Len(launches) :
          /\ cmd # <<>>
          /\ launches[j].program = Head(cmd)
          /\ launches[j].args = Tail(cmd)

C5_Witness ==
    /\ pc = "ofw_done"
    /\ Len(launches) = 1
    /\ launches[1].program = args.application
    /\ launches[1].args = <<>>

\* C6: open_file returns CommandParsingFailed exactly when the expansion of
\* the Exec value is empty, without invoking the launcher; otherwise the
\* launcher is invoked exactly once and the result is LaunchFailed when the
\* launcher fails and success when it does not.
C6_OpenFileOutcome ==
    pc = "of_done" =>
        LET self == Unwrap(app)
            parts == parse_command(self.exec_command, args.path, self.icon,
                                   Some(self.xdg_entry_path))
        IN /\ result = CommandParsingFailed <=> parts = <<>>
           /\ parts = <<>> => launches = <<>>
           /\ parts # <<>> =>
                 /\ Len(launches) = 1
                 /\ result = IF launches[1].started THEN Ok ELSE LaunchFailed

C6_Witness ==
    /\ pc = "of_done"
    /\ result = CommandParsingFailed
    /\ launches = <<>>

\* C7: when no applications directory holds an entry for the supplied
\* name, open_file_with launches the name alone (no target path), and
\* open_file_with ends with success or LaunchFailed, never with
\* CommandParsingFailed.
C7_NameFallback ==
    pc = "ofw_done" =>
        /\ result \in {Ok, LaunchFailed}
        /\ (\A i \in 1..NumDirs : ~HoldsName(i, args.application)) =>
              /\ Len(launches) = 1
              /\ launches[1].program = args.application
              /\ launches[1].args = <<>>

C7_Witness ==
    /\ pc = "ofw_done"
    /\ \A i \in 1..NumDirs : ~HoldsName(i, args.application)
    /\ launches = <<[program |-> UnknownApp, args |-> <<>>,
                     started |-> TRUE]>>
    /\ result = Ok

\* C8: open_file on Exec 'editor %f %i' yields editor, the target,
\* --icon and the icon when the Application has an icon, and editor and
\* the target alone when it has none; no argument of the vector is empty.
C8_IconFieldCode ==
    pc \in {"of_launch", "of_done"} =>
        /\ \A j \in 1..Len(cmd) : cmd[j] # <<>>
        /\ Unwrap(app).exec_command = ExecEditor =>
              cmd = IF IsSome(Unwrap(app).icon)
                    THEN <<Editor, args.path, IconFlag, Unwrap(Unwrap(app).icon)>>
                    ELSE <<Editor, args.path>>

C8_Witness ==
    /\ pc = "of_done"
    /\ Unwrap(app).exec_command = ExecEditor
    /\ Unwrap(app).icon = Some(EditIcon)
    /\ args.path = TargetPath
    /\ cmd = <<Editor, TargetPath, IconFlag, EditIcon>>
    /\ Len(launches) = 1

\* C9: detect_editor stops at the first directory that matches: when that
\* entry cannot be parsed or has no Exec key, that failure is the result
\* and no directory after it has been probed.
C9_SinglePass ==
    pc = "detect_done" /\ IsSome(entry) /\ Holders(Unwrap(entry)) # {} =>
        LET k == Lowest(Holders(Unwrap(entry)))
            f == Unwrap(fs[k].file)
        IN /\ probed = UpTo(k)
           /\ f.read # "ok" => result.kind = "FreeDesktopEntryParseError"
           /\ f.read = "ok" /\ f.exec = None => result = ExecFieldMissing

C9_Witness ==
    /\ pc = "detect_done"
    /\ result.kind = "FreeDesktopEntryParseError"
    /\ probed = <<1>>
    /\ HoldsEntry(2, Unwrap(entry))
    /\ Unwrap(fs[2].file).read = "ok"
    /\ IsSome(Unwrap(fs[2].file).exec)

\* C10: open_file_with keeps searching past a directory whose entry has no
\* Exec key or expands to an empty vector; the first directory yielding a
\* non-empty vector supplies the command, and the bare name is launched
\* only when no directory yields one.
C10_SearchPastEmpty ==
    pc \in {"ofw_launch", "ofw_done"} =>
        LET Y == Yielders(args.application, args.path) IN
        IF Y = {}
        THEN cmd = <<args.application>> /\ probed = UpTo(NumDirs)
        ELSE /\ cmd = VectorOf(Lowest(Y), args.path)
             /\ probed = UpTo(Lowest(Y))

C10_Witness ==
    /\ pc = "ofw_done"
    /\ HoldsName(1, args.application)
    /\ VectorOf(1, args.path) = <<>>
    /\ 2 \in Yielders(args.application, args.path)
    /\ probed = <<1, 2>>
    /\ launches[1].program = Editor
====
